---- MODULE Spec2Model ----
(***************************************************************************)
(* Model of scripts/refresh_hex_arch_inventories.py: the usage scanner,    *)
(* the taxonomy classifier, the table renderer, the block splicer and      *)
(* main.                                                                   *)
(*                                                                         *)
(* Text is a sequence of tokens.  A token is one character class the       *)
(* regular expressions of the script distinguish: "\n", " " (any other     *)
(* whitespace), a marker literal such as "%% PORT TAXONOMY %%", or a run   *)
(* of other characters.                                                    *)
(***************************************************************************)
EXTENDS Integers, Sequences, FiniteSets, TLC

VARIABLES
    pc,            \* position of the scenario
    text,          \* replace_block: the text argument
    replacement,   \* replace_block: the replacement argument
    once,          \* outcome of replace_block(text, L, L, replacement)
    twice,         \* outcome of replace_block applied to the text of once
    item,          \* render_table: the PubItem of the row being rendered
    arg_used,      \* render_table: usage.get(name, []); the dto_locs of a DTO row
    arg_port_locs, \* render_dto_ownership_block: the port_locs of a DTO row
    row,           \* the rendered row
    files,         \* the source tree: its .rs files
    listing,       \* the order in which rglob yields the files
    scanned,       \* the result of scan_inbound_usages (engine_usage)
    port_block,    \* the result of render_port_taxonomy_block
    dto_block,     \* the result of render_dto_ownership_block
    plan,          \* the contents of MASTER_PLAN on disk
    run,           \* main: the number of finished runs
    last,          \* main: what the last run did
    prev           \* main: what the run before it did

vars == <<pc, text, replacement, once, twice, item, arg_used, arg_port_locs, row,
          files, listing, scanned, port_block, dto_block, plan, run, last, prev>>

----------------------------------------------------------------------------
(* Bounds *)

MaxTextLen == 5
MaxUsagePaths == 6
MaxFiles == 3
MaxSrcLen == 5
MaxPlanLines == 4

----------------------------------------------------------------------------
(* Characters and lines *)

NL == "\n"
SP == " "

\* \s of the re module, over the tokens of the model
IsSpace(c) == c \in {NL, SP}

Min(S) == CHOOSE x \in S : \A y \in S : x <= y
Max(S) == CHOOSE x \in S : \A y \in S : x >= y

\* F(e), with e evaluated once: a local variable of the program
Let(e, F(_)) == CHOOSE r \in {F(v) : v \in {e}} : TRUE

\* ^ under re.MULTILINE, at the position before t[i]
AtLineStart(t, i) == i = 1 \/ t[i - 1] = NL

\* $ under re.MULTILINE, at the position before t[i] (i = Len(t) + 1: the end)
AtLineEnd(t, i) == i = Len(t) + 1 \/ t[i] = NL

\* greedy \s* from position i: the first position it cannot consume
WsRunEnd(t, i) ==
    CHOOSE j \in i..(Len(t) + 1) :
        /\ \A k \in i..(j - 1) : IsSpace(t[k])
        /\ (j = Len(t) + 1 \/ ~IsSpace(t[j]))

\* the start of the line that holds position r
LineStartOf(t, r) == Max({b \in 1..r : AtLineStart(t, b)})

\* str.rstrip(): s up to its last character that is not whitespace
rstrip(s) ==
    Let(s, LAMBDA v : SubSeq(v, 1, Max({0} \cup {i \in 1..Len(v) : ~IsSpace(v[i])})))

\* str.lstrip(): s from its first character that is not whitespace
lstrip(s) ==
    Let(s, LAMBDA v :
        SubSeq(v, Min({Len(v) + 1} \cup {i \in 1..Len(v) : ~IsSpace(v[i])}), Len(v)))

\* str.strip()
strip(s) == Let(rstrip(s), lstrip)

\* sep.join(parts[i:]), parts a sequence of texts
RECURSIVE JoinFrom(_, _, _)
JoinFrom(sep, parts, i) ==
    IF i > Len(parts) THEN <<>>
    ELSE IF i = Len(parts) THEN parts[i]
    ELSE parts[i] \o sep \o JoinFrom(sep, parts, i + 1)

\* sep.join(parts)
Join(sep, parts) == Let(parts, LAMBDA ps : JoinFrom(sep, ps, 1))

\* "".join(parts)
Concat(parts) == Join(<<>>, parts)

\* s[:n]
Take(s, n) == SubSeq(s, 1, IF Len(s) < n THEN Len(s) ELSE n)

----------------------------------------------------------------------------
(* Identifiers and paths.  An identifier is a sequence of CamelCase words  *)
(* and a relative path a sequence of segments; Python orders both as       *)
(* strings.  Lexicon lists every word and segment of the model in code     *)
(* point order, and none is a prefix of another, so that comparing word by *)
(* word is comparing the strings.                                          *)

Lexicon ==
    << "Approval", "Context", "Handler", "Item", "Llm", "Port", "Proposal",
       "Queue", "Request", "Response", "Staging", "UseCase", "World",
       "a.rs", "application", "b.rs", "c.rs", "crates", "d.rs", "e.rs",
       "engine-app", "engine-dto", "engine-ports", "f.rs", "g.rs", "h.rs",
       "handlers", "inbound", "o.rs", "outbound", "p.rs", "player-app",
       "player-ports", "player-ui", "presentation", "q.rs", "r.rs", "routes",
       "services", "src", "subroutes", "t.rs", "u.rs", "views" >>

Rank(w) == CHOOSE i \in 1..Len(Lexicon) : Lexicon[i] = w

\* the first position where a and b differ (one past the shorter when one
\* is a prefix of the other)
FirstDiff(a, b) ==
    Min({i \in 1..(Len(a) + 1) : i > Len(a) \/ i > Len(b) \/ a[i] # b[i]})

\* a < b on strings
StrLess(a, b) ==
    /\ a # b
    /\ Let(FirstDiff(a, b),
           LAMBDA i : i > Len(a) \/ (i <= Len(b) /\ Rank(a[i]) < Rank(b[i])))

\* the members of S in ascending order: the i-th has i - 1 members below it
Ascending(S) ==
    [i \in 1..Cardinality(S) |->
        CHOOSE x \in S : Cardinality({y \in S : StrLess(y, x)}) = i - 1]

\* sorted(set(...)) of strings
SortedSet(S) == Let(S, Ascending)

\* the text of a relative path: Path.as_posix()
PathText(p) == Join(<<"/">>, [i \in 1..Len(p) |-> <<p[i]>>])

\* str(n) of a small count
NumStr(n) == <<"0", "1", "2", "3", "4", "5", "6", "7", "8", "9">>[n + 1]

----------------------------------------------------------------------------
(* Taxonomy classifier *)

\* the directory tokens of is_boundary_path, "/a/b/" as <<"a", "b">>
BoundaryTokens ==
    { <<"application", "handlers">>, <<"application", "request_handlers">>,
      <<"application", "requests">>, <<"presentation">>, <<"routes">> }

\* token in path_str, for a token that starts and ends with "/": its
\* segments are whole segments of the path, neither the first nor the last
ContainsDir(p, tok) ==
    \E i \in 2..(Len(p) - Len(tok)) : SubSeq(p, i, i + Len(tok) - 1) = tok

\* a variant of is_boundary_path that takes all of application/ for a
\* boundary directory
BoundaryUnderApplication(p) ==
    \E tok \in BoundaryTokens \cup {<<"application">>} : ContainsDir(p, tok)

is_boundary_path(p) == \E tok \in BoundaryTokens : ContainsDir(p, tok)

\* item_name.endswith("UseCasePort")
EndsWithUseCasePort(name) ==
    Len(name) >= 2 /\ SubSeq(name, Len(name) - 1, Len(name)) = <<"UseCase", "Port">>

Inbound == <<"inbound">>
InboundBoundaryDto == <<"inbound", " (", "boundary", " DTO)">>
InboundBoundaryTrait == <<"inbound", " (", "boundary", " trait)">>
OutboundMisplaced == <<"outbound", " (misplaced today)">>

\* a variant of suggest_port_target that looks at the usage before the names
SuggestByUsageFirst(item_name, usage_paths) ==
    IF usage_paths # <<>>
          /\ ~(\A i \in 1..Len(usage_paths) : is_boundary_path(usage_paths[i]))
    THEN OutboundMisplaced
    ELSE IF item_name \in {<<"Request", "Context">>, <<"UseCase", "Context">>}
    THEN InboundBoundaryDto
    ELSE IF item_name \in {<<"Request", "Handler">>}
    THEN InboundBoundaryTrait
    ELSE Inbound

suggest_port_target(item_name, usage_paths) ==
    IF item_name \in {<<"Request", "Context">>, <<"UseCase", "Context">>}
    THEN InboundBoundaryDto
    ELSE IF item_name \in {<<"Request", "Handler">>}
    THEN InboundBoundaryTrait
    ELSE IF EndsWithUseCasePort(item_name)
    THEN Inbound
    ELSE IF usage_paths # <<>>
            /\ ~(\A i \in 1..Len(usage_paths) : is_boundary_path(usage_paths[i]))
    THEN OutboundMisplaced
    ELSE Inbound

NoteMove == "Move to outbound; update app deps; remove inbound re-export"
NoteLeak == "Keep in inbound; ensure it does not leak into services"
NoteAdapters == "Keep in inbound; ensure only adapters/UI import"

\* the notes of a row, from its suggested target
NotesFor(suggested) ==
    IF suggested[1] = "outbound" THEN NoteMove
    ELSE IF \E i \in 1..Len(suggested) : suggested[i] = "boundary" THEN NoteLeak
    ELSE NoteAdapters

suggest_dto_owner(type_name) ==
    IF (\E i \in 1..Len(type_name) : type_name[i] = "Queue")
          \/ type_name \in {<<"Llm", "Response">>}
    THEN "engine-dto (likely internal glue)"
    ELSE IF (\E i \in 1..Len(type_name) : type_name[i] = "Proposal")
          \/ type_name \in {<<"Approval", "Item">>}
    THEN "engine-ports (likely boundary DTO)"
    ELSE "TBD"

----------------------------------------------------------------------------
(* Table renderer: one row.  In the texts "'" stands for the backquote.    *)

\* ", ".join(paths)
JoinPaths(paths) == Join(<<", ">>, [i \in 1..Len(paths) |-> PathText(paths[i])])

\* a variant of UsedDisp that samples two paths, as the DTO table does
UsedDispOfTwo(used) ==
    IF used = <<>> THEN <<>>
    ELSE JoinPaths(Take(used, 2))
           \o (IF Len(used) > 2 THEN <<" (+", NumStr(Len(used) - 2), " more)">> ELSE <<>>)

\* the "Used in" cell of the port taxonomy table
UsedDisp(used) ==
    IF used = <<>> THEN <<>>
    ELSE JoinPaths(Take(used, 3))
           \o (IF Len(used) > 3 THEN <<" (+", NumStr(Len(used) - 3), " more)">> ELSE <<>>)

\* a module-example cell of the DTO ownership table
LocsDisp(locs) ==
    JoinPaths(Take(locs, 2))
      \o (IF Len(locs) > 2 THEN <<" (+", NumStr(Len(locs) - 2), " more)">> ELSE <<>>)

\* the row render_table appends for the item it with the usage list used
PortRow(it, used) ==
    Let(suggest_port_target(it.name, used),
        LAMBDA suggested :
            [name |-> it.name, kind |-> it.kind, rel_path |-> it.rel_path,
             used_disp |-> UsedDisp(used), suggested |-> suggested,
             notes |-> NotesFor(suggested)])

PortRowText(r) ==
    <<"| '">> \o r.name \o <<"' | ", r.kind, " | ">> \o PathText(r.rel_path)
      \o <<" | ">> \o r.used_disp \o <<" | ">> \o r.suggested
      \o <<" | ", r.notes, " |", NL>>

\* the line render_dto_ownership_block appends for a colliding name
DtoRowText(name, dto_locs, port_locs) ==
    <<"| '">> \o name \o <<"' | ">> \o LocsDisp(dto_locs) \o <<" | ">>
      \o LocsDisp(port_locs) \o <<" | ", suggest_dto_owner(name), " | ",
           "Pick one canonical definition; delete the shadow copy; migrate imports",
           " |">>

----------------------------------------------------------------------------
(* The source tree.  A file is [path, decls, src]: decls is what           *)
(* PUB_DECL_RE.finditer yields on its contents, in text order, and src is  *)
(* the part of its contents the usage scanner reads.  An enumeration is    *)
(* the sequence of the tree's files in the order Path.rglob yields them,   *)
(* which the file system decides.                                          *)

InDir(path, dir) == Len(path) > Len(dir) /\ SubSeq(path, 1, Len(dir)) = dir

\* iter_rs_files(root): nothing when the root does not exist or holds no file
iter_rs_files(root, enum) == SelectSeq(enum, LAMBDA f : InDir(f.path, root))

\* the PubItems of one file
ItemsOf(f) ==
    [i \in 1..Len(f.decls) |->
        [name |-> f.decls[i].name, kind |-> f.decls[i].kind, rel_path |-> f.path]]

collect_public_items(dir_path, enum) ==
    Let(iter_rs_files(dir_path, enum),
        LAMBDA fs : Concat([i \in 1..Len(fs) |-> ItemsOf(fs[i])]))

----------------------------------------------------------------------------
(* Usage scanner *)

EnginePrefix == "wrldbldr_engine_ports::inbound::"
PlayerPrefix == "wrldbldr_player_ports::inbound::"
InboundPrefixes == {EnginePrefix, PlayerPrefix}

\* the characters of [A-Za-z0-9_:{}\s,] : every token but ";", which stands
\* for any character outside the class
InTailClass(c) == c # ";"

\* a token made of identifier characters only
IsIdentWord(c) == c \notin {":", "{", "}", ",", SP, NL, ";"} \cup InboundPrefixes

\* re.fullmatch(r"[A-Za-z_][A-Za-z0-9_]*", s)
IsIdent(s) == s # <<>> /\ \A i \in 1..Len(s) : IsIdentWord(s[i])

\* the characters of a token of a matched tail: a prefix literal inside a
\* tail is read as the identifier characters and colons it is made of
ExpandToken(c) ==
    IF c = EnginePrefix THEN <<"wrldbldr_engine_ports", ":", ":", "inbound", ":", ":">>
    ELSE IF c = PlayerPrefix THEN <<"wrldbldr_player_ports", ":", ":", "inbound", ":", ":">>
    ELSE <<c>>

Expand(s) == Concat([i \in 1..Len(s) |-> ExpandToken(s[i])])

\* the first position at or after i where sep occurs in s, 0 when nowhere
FindFrom(s, sep, i) ==
    Let({k \in i..(Len(s) - Len(sep) + 1) : SubSeq(s, k, k + Len(sep) - 1) = sep},
        LAMBDA at : IF at = {} THEN 0 ELSE Min(at))

\* s[i:].split(sep)
RECURSIVE SplitFrom(_, _, _)
SplitFrom(s, sep, i) ==
    Let(FindFrom(s, sep, i),
        LAMBDA k : IF k = 0 THEN <<SubSeq(s, i, Len(s))>>
                   ELSE <<SubSeq(s, i, k - 1)>> \o SplitFrom(s, sep, k + Len(sep)))

\* s.split(sep)
Split(s, sep) == Let(s, LAMBDA v : SplitFrom(v, sep, 1))

\* s.lstrip("{")
LstripBrace(s) == SubSeq(s, Min({Len(s) + 1} \cup {i \in 1..Len(s) : s[i] # "{"}), Len(s))

\* the last of the non-empty parts, when it is an identifier
LastIdent(parts) ==
    IF parts = <<>> THEN <<>>
    ELSE IF IsIdent(parts[Len(parts)]) THEN <<parts[Len(parts)]>>
    ELSE <<>>

\* _extract_last_ident(segment): <<name>>, or <<>> for None
extract_last_ident(segment) ==
    Let(strip(segment),
        LAMBDA seg :
            IF seg = <<>> THEN <<>>
            ELSE IF seg[1] = "{" /\ seg[Len(seg)] = "}" THEN <<>>
            ELSE Let(SelectSeq(Split(seg, <<":", ":">>), LAMBDA p : p # <<>>), LastIdent))

\* the names of a braced list: brace.split(","), stripped, the identifiers
BraceNames(brace) ==
    Let(Split(brace, <<",">>),
        LAMBDA names : SelectSeq([i \in 1..Len(names) |-> strip(names[i])], IsIdent))

\* the names one match of INBOUND_PATH_USE_RE records, tail its group 2
TailNames(tail) ==
    Let(strip(tail),
        LAMBDA stripped :
            IF stripped # <<>> /\ stripped[1] = "{"
            THEN Let(LstripBrace(Split(stripped, <<"}">>)[1]), BraceNames)
            ELSE extract_last_ident(tail))

\* the position after the greedy run of tail characters that starts at i
TailEnd(src, i) ==
    CHOOSE j \in i..(Len(src) + 1) :
        /\ \A k \in i..(j - 1) : InTailClass(src[k])
        /\ (j = Len(src) + 1 \/ ~InTailClass(src[j]))

\* where INBOUND_PATH_USE_RE matches at or after pos: 0 when nowhere
NextUse(src, pos) ==
    Let({i \in pos..(Len(src) - 1) : src[i] \in InboundPrefixes /\ InTailClass(src[i + 1])},
        LAMBDA starts : IF starts = {} THEN 0 ELSE Min(starts))

\* INBOUND_PATH_USE_RE.finditer(contents) from position pos on, and the
\* names each match records, in order
RECURSIVE NamesFrom(_, _)
NamesFrom(src, pos) ==
    Let(NextUse(src, pos),
        LAMBDA i :
            IF i = 0 THEN <<>>
            ELSE Let(TailEnd(src, i + 1),
                     LAMBDA j : Let(Expand(SubSeq(src, i + 1, j - 1)), TailNames)
                                  \o NamesFrom(src, j)))

\* the (name, rel(file_path)) pairs the loops append for one file
FileHits(f) ==
    Let(NamesFrom(f.src, 1), LAMBDA names : [k \in 1..Len(names) |-> <<names[k], f.path>>])

\* the (name, rel(file_path)) pairs the loops of scan_inbound_usages append
Appended(search_roots, enum) ==
    Concat([r \in 1..Len(search_roots) |->
        Let(iter_rs_files(search_roots[r], enum),
            LAMBDA fs : Concat([i \in 1..Len(fs) |-> FileHits(fs[i])]))])

\* out after the loops: name -> sorted(set(paths))
UsageDict(hits) ==
    [n \in {hits[k][1] : k \in 1..Len(hits)} |->
        SortedSet({hits[k][2] : k \in {h \in 1..Len(hits) : hits[h][1] = n}})]

\* scan_inbound_usages(search_roots)
scan_inbound_usages(search_roots, enum) == Let(Appended(search_roots, enum), UsageDict)

----------------------------------------------------------------------------
(* render_port_taxonomy_block *)

EngineInboundDir == <<"crates", "engine-ports", "src", "inbound">>
PlayerInboundDir == <<"crates", "player-ports", "src", "inbound">>
EngineAppSrc == <<"crates", "engine-app", "src">>
PlayerAppSrc == <<"crates", "player-app", "src">>
PlayerUiSrc == <<"crates", "player-ui", "src">>
EngineDtoSrc == <<"crates", "engine-dto", "src">>
EnginePortsSrc == <<"crates", "engine-ports", "src">>

\* the sort key (x.name, x.rel_path)
KeyLess(a, b) ==
    StrLess(a.name, b.name) \/ (a.name = b.name /\ StrLess(a.rel_path, b.rel_path))

\* the place of items[i] after a stable sort: behind the items with a
\* smaller key and the earlier items with an equal key
SortedPlace(items, i) ==
    1 + Cardinality({j \in 1..Len(items) :
                        \/ KeyLess(items[j], items[i])
                        \/ (j < i /\ ~KeyLess(items[i], items[j]))})

\* sorted(items, key=lambda x: (x.name, x.rel_path)); the sort is stable
SortedItems(items) ==
    [p \in 1..Len(items) |-> items[CHOOSE i \in 1..Len(items) : SortedPlace(items, i) = p]]

\* indexed after the loop: name -> the first item of that name
FirstByName(sorted) ==
    [n \in {sorted[i].name : i \in 1..Len(sorted)} |->
        sorted[Min({i \in 1..Len(sorted) : sorted[i].name = n})]]

\* a variant of index_defs that leaves out the sort
IndexInEnumerationOrder(items) == Let(items, FirstByName)

\* index_defs(items)
index_defs(items) == Let(Let(items, SortedItems), FirstByName)

\* usage.get(name, [])
UsageGet(usage, name) == IF name \in DOMAIN usage THEN usage[name] ELSE <<>>

\* the rows of render_table, one per name of sorted(defs.keys())
TableRows(defs, usage) ==
    Let(SortedSet(DOMAIN defs),
        LAMBDA names :
            [i \in 1..Len(names) |->
                Let(UsageGet(usage, names[i]), LAMBDA used : PortRow(defs[names[i]], used))])

PortHeader ==
    << "| Item | Kind | Defined in | Used in app/UI (examples) | Suggested target | Notes |", NL,
       "|---|---|---|---|---|---|", NL >>

render_table(defs, usage) ==
    Let(TableRows(defs, usage),
        LAMBDA rows : PortHeader \o Concat([i \in 1..Len(rows) |-> PortRowText(rows[i])]))

NoEngineItems == <<"_No engine inbound items found (unexpected)._", SP>>
NoPlayerItems == <<"_No player inbound items found (unexpected)._", SP>>
RegenerateLine == <<"_Regenerate with 'task arch:inventories'._">>

\* a variant of SideLines that shows nothing for a side that declares nothing
SideLinesOrNothing(defs, usage, none) ==
    IF DOMAIN defs # {} THEN rstrip(render_table(defs, usage)) ELSE <<>>

\* what the block shows for one side: the table, or the line that says
\* there is none when the side declares nothing
SideLines(defs, usage, none) ==
    IF DOMAIN defs # {} THEN rstrip(render_table(defs, usage)) ELSE none

\* out_lines, from the lines of the two sides
PortOutLines(engine_lines, player_lines) ==
    << <<"#### Engine inbound taxonomy">>, <<>>, engine_lines,
       <<>>, <<"#### Player inbound taxonomy">>, <<>>, player_lines,
       <<>>, RegenerateLine >>

\* "\n".join(lines).strip() + "\n"
BlockText(lines) == strip(Join(<<NL>>, lines)) \o <<NL>>

render_port_taxonomy_block(enum) ==
    Let(index_defs(collect_public_items(EngineInboundDir, enum)), LAMBDA engine_defs :
    Let(index_defs(collect_public_items(PlayerInboundDir, enum)), LAMBDA player_defs :
    Let(scan_inbound_usages(<<EngineAppSrc>>, enum), LAMBDA engine_usage :
    Let(scan_inbound_usages(<<PlayerAppSrc, PlayerUiSrc>>, enum), LAMBDA player_usage :
    Let(SideLines(engine_defs, engine_usage, NoEngineItems), LAMBDA engine_lines :
    Let(SideLines(player_defs, player_usage, NoPlayerItems), LAMBDA player_lines :
        BlockText(PortOutLines(engine_lines, player_lines))))))))

----------------------------------------------------------------------------
(* render_dto_ownership_block *)

\* out after the loop: name -> sorted(set(paths))
PathsByName(items) ==
    [n \in {items[i].name : i \in 1..Len(items)} |->
        SortedSet({items[i].rel_path : i \in {k \in 1..Len(items) : items[k].name = n}})]

\* collect_public_type_names(dir_path), over the struct, enum and type
\* declarations
collect_public_type_names(dir_path, enum) ==
    Let(SelectSeq(collect_public_items(dir_path, enum),
                  LAMBDA it : it.kind \in {"struct", "enum", "type"}),
        PathsByName)

DtoHeader ==
    << <<"| Type name | engine-dto (examples) | engine-ports (examples) | Suggested owner | Notes |">>,
       <<"|---|---|---|---|---|">> >>

DtoNoneRow == <<"| _(none)_ |  |  |  |  |">>

\* the lines of the table: the header, a line per collision, and the
\* (none) line when there is no collision
DtoLines(dto_types, port_types, collisions) ==
    DtoHeader
      \o [i \in 1..Len(collisions) |->
            DtoRowText(collisions[i], dto_types[collisions[i]], port_types[collisions[i]])]
      \o (IF collisions = <<>> THEN <<DtoNoneRow>> ELSE <<>>)

DtoTableLines(enum) ==
    Let(collect_public_type_names(EngineDtoSrc, enum), LAMBDA dto_types :
    Let(collect_public_type_names(EnginePortsSrc, enum), LAMBDA port_types :
    Let(SortedSet(DOMAIN dto_types \cap DOMAIN port_types), LAMBDA collisions :
        DtoLines(dto_types, port_types, collisions))))

render_dto_ownership_block(enum) ==
    Let(DtoTableLines(enum), LAMBDA lines : BlockText(lines \o << <<>>, RegenerateLine >>))

----------------------------------------------------------------------------
(* replace_block *)

\* f"%% {start_marker} %%"
StartLiteral(label) ==
    IF label = "PORT TAXONOMY" THEN "%% PORT TAXONOMY %%" ELSE "%% DTO OWNERSHIP %%"

\* f"%% /{end_marker} %%"
EndLiteral(label) ==
    IF label = "PORT TAXONOMY" THEN "%% /PORT TAXONOMY %%" ELSE "%% /DTO OWNERSHIP %%"

\* ^START\s*\n: the first newline of the whitespace after the start
\* literal at i (0: the literal does not end its line)
StartLineNl(t, i) ==
    Let({k \in (i + 1)..(WsRunEnd(t, i + 1) - 1) : t[k] = NL},
        LAMBDA nls : IF nls = {} THEN 0 ELSE Min(nls))

\* \s*$ after the end literal at r: the positions where the match may end
TrailEnds(t, r) == {e \in (r + 1)..WsRunEnd(t, r + 1) : AtLineEnd(t, e)}

\* ^\s*END\s*$: the end literals after line nl that are alone on their line
EndCandidates(t, nl, e) ==
    {r \in (nl + 1)..Len(t) :
        /\ t[r] = e
        /\ LineStartOf(t, r) > nl
        /\ \A k \in LineStartOf(t, r)..(r - 1) : IsSpace(t[k])
        /\ TrailEnds(t, r) # {}}

\* The pattern (?ms)^START\s*\n.*?^\s*END\s*$ tried at position i: the
\* position after the match, or 0 when it does not match there.  .*? is
\* lazy: the nearest end literal; the trailing \s* is greedy: the farthest
\* line end within the whitespace after it.
MatchEnd(t, i, s, e) ==
    IF t[i] = s /\ AtLineStart(t, i) /\ StartLineNl(t, i) # 0
    THEN Let(EndCandidates(t, StartLineNl(t, i), e),
             LAMBDA ends : IF ends = {} THEN 0 ELSE Max(TrailEnds(t, Min(ends))))
    ELSE 0

\* pattern.search(t, pos): <<start, end>> of the leftmost match at or after
\* pos, <<0, 0>> when there is none
Search(t, pos, s, e) ==
    Let({i \in pos..Len(t) : MatchEnd(t, i, s, e) # 0},
        LAMBDA starts : IF starts = {} THEN <<0, 0>>
                        ELSE <<Min(starts), MatchEnd(t, Min(starts), s, e)>>)

\* repl(match): f"{start}\n\n{replacement.rstrip()}\n\n{end}"
Repl(s, e, r) == <<s, NL, NL>> \o rstrip(r) \o <<NL, NL, e>>

\* pattern.subn(repl, text, count=1): <<new_text, n>>
Subn1(t, s, e, r) ==
    Let(Search(t, 1, s, e),
        LAMBDA m : IF m[1] = 0 THEN <<t, 0>>
                   ELSE <<SubSeq(t, 1, m[1] - 1) \o Repl(s, e, r) \o SubSeq(t, m[2], Len(t)), 1>>)

\* replace_block(text, start_marker, end_marker, replacement):
\* raised = TRUE stands for the RuntimeError, and then there is no text
replace_block(t, start_marker, end_marker, r) ==
    Let(Subn1(t, StartLiteral(start_marker), EndLiteral(end_marker), r),
        LAMBDA sub : IF sub[2] # 1 THEN [raised |-> TRUE, text |-> <<>>]
                     ELSE [raised |-> FALSE, text |-> sub[1]])

----------------------------------------------------------------------------
(* main *)

UpToDate == "Inventories already up to date"
OutOfDate == "Inventories out of date (run 'task arch:inventories')"
Updated == "Updated inventories in:"

\* a variant of Finish that writes in check mode too
FinishWritingInCheckMode(original, check, first, second) ==
    [check |-> check, original |-> original, reads |-> 1, after_port |-> first.text]
      @@ IF first.raised \/ second.raised
         THEN [raised |-> TRUE, spliced |-> IF first.raised THEN 0 ELSE 1,
               updated |-> <<>>, message |-> "RuntimeError", status |-> 1,
               writes |-> 0, written |-> <<>>]
         ELSE IF second.text = original
         THEN [raised |-> FALSE, spliced |-> 2, updated |-> second.text,
               message |-> UpToDate, status |-> 0, writes |-> 0, written |-> <<>>]
         ELSE [raised |-> FALSE, spliced |-> 2, updated |-> second.text,
               message |-> IF check THEN OutOfDate ELSE Updated,
               status |-> IF check THEN 1 ELSE 0, writes |-> 1, written |-> second.text]

\* What a run of main that read original does after its two splices:
\* first and second are the outcomes of the two calls of replace_block
\* (second is first when the first call raised and the second was never
\* made).  status is the exit status of the process: the return value of
\* main, or 1 when the RuntimeError of replace_block ends it.
Finish(original, check, first, second) ==
    [check |-> check, original |-> original, reads |-> 1, after_port |-> first.text]
      @@ IF first.raised \/ second.raised
         THEN [raised |-> TRUE, spliced |-> IF first.raised THEN 0 ELSE 1,
               updated |-> <<>>, message |-> "RuntimeError", status |-> 1,
               writes |-> 0, written |-> <<>>]
         ELSE IF second.text = original
         THEN [raised |-> FALSE, spliced |-> 2, updated |-> second.text,
               message |-> UpToDate, status |-> 0, writes |-> 0, written |-> <<>>]
         ELSE IF check
         THEN [raised |-> FALSE, spliced |-> 2, updated |-> second.text,
               message |-> OutOfDate, status |-> 1, writes |-> 0, written |-> <<>>]
         ELSE [raised |-> FALSE, spliced |-> 2, updated |-> second.text,
               message |-> Updated, status |-> 0, writes |-> 1, written |-> second.text]

\* the second splice of main, on the outcome of the first
SecondSplice(first, block) ==
    IF first.raised THEN first
    ELSE replace_block(first.text, "DTO OWNERSHIP", "DTO OWNERSHIP", block)

\* One run of main on the plan on disk, with --check or without, under the
\* enumeration the file system gives: what it read, spliced, wrote and
\* returned.
main(on_disk, check, order) ==
    Let(render_port_taxonomy_block(order), LAMBDA port :
    Let(render_dto_ownership_block(order), LAMBDA dto :
    Let(replace_block(on_disk, "PORT TAXONOMY", "PORT TAXONOMY", port), LAMBDA first :
    Let(SecondSplice(first, dto), LAMBDA second :
        Finish(on_disk, check, first, second)))))

----------------------------------------------------------------------------
(* The inputs of the scenarios *)

RECURSIVE SeqsUpTo(_, _)
SeqsUpTo(S, n) ==
    IF n = 0 THEN {<<>>}
    ELSE LET shorter == SeqsUpTo(S, n - 1)
         IN  shorter \cup {Append(q, c) : q \in {p \in shorter : Len(p) = n - 1}, c \in S}

\* the orders in which a set of files can be enumerated
Perms(S) ==
    {s \in [1..Cardinality(S) -> S] : \A i, j \in 1..Cardinality(S) : s[i] = s[j] => i = j}

RequestContext == <<"Request", "Context">>
UseCaseContext == <<"UseCase", "Context">>
RequestHandler == <<"Request", "Handler">>
StagingUseCasePort == <<"Staging", "UseCase", "Port">>
StagingPort == <<"Staging", "Port">>
WorldQueue == <<"World", "Queue">>

Names ==
    {RequestContext, UseCaseContext, RequestHandler, StagingUseCasePort, StagingPort,
     WorldQueue}

EnginePortP == <<"crates", "engine-ports", "src", "inbound", "p.rs">>
EnginePortQ == <<"crates", "engine-ports", "src", "inbound", "q.rs">>
PlayerPortR == <<"crates", "player-ports", "src", "inbound", "r.rs">>
EngineDtoT == <<"crates", "engine-dto", "src", "t.rs">>
HandlersA == <<"crates", "engine-app", "src", "application", "handlers", "a.rs">>
ServicesB == <<"crates", "engine-app", "src", "application", "services", "b.rs">>
PresentationE == <<"crates", "player-ui", "src", "presentation", "e.rs">>
PlayerServicesD == <<"crates", "player-app", "src", "application", "services", "d.rs">>

\* paths of files that use inbound items; those under application/handlers,
\* presentation and routes are boundary paths
UsagePaths ==
    << HandlersA, ServicesB,
       <<"crates", "player-ui", "src", "subroutes", "g.rs">>,
       PresentationE,
       <<"crates", "player-ui", "src", "routes", "f.rs">>,
       PlayerServicesD,
       <<"crates", "engine-app", "src", "presentation", "c.rs">>,
       <<"crates", "player-ui", "src", "views", "h.rs">> >>

\* the sorted duplicate-free lists over the first n usage paths
PathLists(n) == {SortedSet({UsagePaths[i] : i \in I}) : I \in SUBSET (1..n)}

\* what the declaration scanner finds in a file that declares items
TraitStaging == << [kind |-> "trait", name |-> StagingPort] >>
StructsStagingContext ==
    << [kind |-> "struct", name |-> StagingPort],
       [kind |-> "struct", name |-> RequestContext] >>
QueueTwice ==
    << [kind |-> "enum", name |-> WorldQueue], [kind |-> "type", name |-> WorldQueue] >>

\* what a file that uses inbound items holds
UseDotted == <<"use", SP, EnginePrefix, "staging", ":", ":", "Staging", "Port", ";", NL>>
UseBraced ==
    <<"use", SP, EnginePrefix, "{", "Staging", "Port", ",", SP, "World", "Queue", "}", ";", NL>>
UseTwice ==
    <<"use", SP, PlayerPrefix, "Request", "Context", ";", NL,
      "use", SP, EnginePrefix, "Staging", "Port", ";", NL>>

DeclFile(p, d) == [path |-> p, decls |-> d, src |-> <<>>]
UseFile(p, u) == [path |-> p, decls |-> <<>>, src |-> u]

FileUniverse ==
    { DeclFile(EnginePortP, TraitStaging), DeclFile(EnginePortP, StructsStagingContext),
      DeclFile(EnginePortQ, StructsStagingContext), DeclFile(EnginePortQ, QueueTwice),
      DeclFile(PlayerPortR, TraitStaging),
      DeclFile(EngineDtoT, StructsStagingContext), DeclFile(EngineDtoT, QueueTwice),
      UseFile(HandlersA, UseDotted), UseFile(HandlersA, UseBraced),
      UseFile(ServicesB, UseDotted), UseFile(ServicesB, UseTwice),
      UseFile(PresentationE, UseTwice), UseFile(PlayerServicesD, UseTwice) }

\* the trees of at most n files
RECURSIVE TreesUpTo(_)
TreesUpTo(n) ==
    IF n = 0 THEN {{}}
    ELSE LET smaller == TreesUpTo(n - 1)
         IN  smaller \cup UNION {{T \cup {f} :
                                      f \in {g \in FileUniverse : \A h \in T : h.path # g.path}} :
                                    T \in smaller}

\* the trees main runs on
MainTrees ==
    { {}, {DeclFile(EnginePortP, TraitStaging), UseFile(ServicesB, UseDotted)} }

\* the tokens a source text of the usage scenario is made of
SrcAlphabet == {EnginePrefix, "Staging", "Port", ":", "{", "}", ",", SP, ";"}

\* the characters of the text replace_block is tried on
TextAlphabet == {StartLiteral("PORT TAXONOMY"), EndLiteral("PORT TAXONOMY"), NL, SP, "x"}

\* the lines a plan is made of
PlanLines ==
    { <<StartLiteral("PORT TAXONOMY")>>, <<EndLiteral("PORT TAXONOMY")>>,
      <<StartLiteral("DTO OWNERSHIP")>>, <<EndLiteral("DTO OWNERSHIP")>>,
      <<"x">>, <<>> }

Plans == {Join(<<NL>>, ls) : ls \in SeqsUpTo(PlanLines, MaxPlanLines)}

----------------------------------------------------------------------------
(* Scenarios *)

NoOutcome == [raised |-> FALSE, text |-> <<>>]
NoItem == [name |-> <<>>, kind |-> "", rel_path |-> <<>>]
NoRow == [table |-> "none"]
NoFunction == [n \in {} |-> <<>>]
NoRun == [check |-> FALSE]

IdleSplice == text = <<>> /\ replacement = <<>> /\ once = NoOutcome /\ twice = NoOutcome
IdleRow == item = NoItem /\ arg_used = <<>> /\ arg_port_locs = <<>> /\ row = NoRow
IdleTree ==
    files = {} /\ listing = <<>> /\ scanned = NoFunction /\ port_block = <<>> /\ dto_block = <<>>
IdleMain == plan = <<>> /\ run = 0 /\ last = NoRun /\ prev = NoRun

splice_vars == <<text, replacement, once, twice>>
row_vars == <<item, arg_used, arg_port_locs, row>>
tree_vars == <<files, listing, scanned, port_block, dto_block>>
main_vars == <<plan, run, last, prev>>

(* replace_block on an arbitrary text, with a rendered block *)

InitSplice ==
    /\ pc = "text"
    /\ text \in SeqsUpTo(TextAlphabet, MaxTextLen)
    /\ replacement \in {render_port_taxonomy_block(<<>>), render_dto_ownership_block(<<>>)}
    /\ once = NoOutcome
    /\ twice = NoOutcome
    /\ IdleRow /\ IdleTree /\ IdleMain

Splice ==
    /\ pc = "text"
    /\ once' = replace_block(text, "PORT TAXONOMY", "PORT TAXONOMY", replacement)
    /\ pc' = "once"
    /\ UNCHANGED <<text, replacement, twice, row_vars, tree_vars, main_vars>>

SpliceAgain ==
    /\ pc = "once"
    /\ ~once.raised
    /\ twice' = replace_block(once.text, "PORT TAXONOMY", "PORT TAXONOMY", replacement)
    /\ pc' = "twice"
    /\ UNCHANGED <<text, replacement, once, row_vars, tree_vars, main_vars>>

(* main, run and run again on the plan it left on disk *)

InitMain ==
    /\ pc = "plan"
    /\ plan \in Plans
    /\ files \in MainTrees
    /\ run = 0
    /\ last = NoRun
    /\ prev = NoRun
    /\ listing = <<>> /\ scanned = NoFunction /\ port_block = <<>> /\ dto_block = <<>>
    /\ IdleSplice /\ IdleRow

RunMain ==
    /\ pc = "plan"
    /\ run < 2
    /\ \E check \in BOOLEAN, order \in Perms(files) :
          \E r \in {main(plan, check, order)} :
              /\ last' = r
              /\ plan' = IF r.writes = 1 THEN r.written ELSE plan
    /\ prev' = last
    /\ run' = run + 1
    /\ UNCHANGED <<pc, splice_vars, row_vars, files, listing, scanned, port_block, dto_block>>

(* one row of each table *)

InitRow ==
    /\ pc = "item"
    /\ item \in {[name |-> n, kind |-> "trait", rel_path |-> EnginePortP] : n \in Names}
    /\ arg_used \in PathLists(MaxUsagePaths)
    /\ arg_port_locs \in PathLists(2)
    /\ row = NoRow
    /\ IdleSplice /\ IdleTree /\ IdleMain

RenderPortRow ==
    /\ pc = "item"
    /\ row' = [table |-> "port", cells |-> PortRow(item, arg_used)]
    /\ pc' = "row"
    /\ UNCHANGED <<item, arg_used, arg_port_locs, splice_vars, tree_vars, main_vars>>

RenderDtoRow ==
    /\ pc = "item"
    /\ arg_used # <<>> /\ arg_port_locs # <<>>
    /\ row' = [table |-> "dto", dto_disp |-> LocsDisp(arg_used), port_disp |-> LocsDisp(arg_port_locs),
               line |-> DtoRowText(item.name, arg_used, arg_port_locs)]
    /\ pc' = "row"
    /\ UNCHANGED <<item, arg_used, arg_port_locs, splice_vars, tree_vars, main_vars>>

(* both blocks rendered from a tree *)

InitTree ==
    /\ pc = "tree"
    /\ files \in TreesUpTo(MaxFiles)
    /\ listing \in Perms(files)
    /\ scanned = NoFunction /\ port_block = <<>> /\ dto_block = <<>>
    /\ IdleSplice /\ IdleRow /\ IdleMain

RenderBlocks ==
    /\ pc = "tree"
    /\ port_block' = render_port_taxonomy_block(listing)
    /\ dto_block' = render_dto_ownership_block(listing)
    /\ scanned' = scan_inbound_usages(<<EngineAppSrc>>, listing)
    /\ pc' = "blocks"
    /\ UNCHANGED <<files, listing, splice_vars, row_vars, main_vars>>

(* the usage scanner on one file of engine-app *)

InitUsage ==
    /\ pc = "src"
    /\ \E src \in SeqsUpTo(SrcAlphabet, MaxSrcLen) :
          files = {[path |-> ServicesB, decls |-> <<>>, src |-> src]}
    /\ listing \in Perms(files)
    /\ scanned = NoFunction /\ port_block = <<>> /\ dto_block = <<>>
    /\ IdleSplice /\ IdleRow /\ IdleMain

ScanUsages ==
    /\ pc = "src"
    /\ scanned' = scan_inbound_usages(<<EngineAppSrc>>, listing)
    /\ pc' = "usage"
    /\ UNCHANGED <<files, listing, port_block, dto_block, splice_vars, row_vars, main_vars>>

----------------------------------------------------------------------------
(* Specifications *)

Init == InitSplice \/ InitMain
Next == Splice \/ SpliceAgain \/ RunMain
Spec == Init /\ [][Next]_vars

NextRow == RenderPortRow \/ RenderDtoRow
SpecRow == InitRow /\ [][NextRow]_vars

SpecTree == InitTree /\ [][RenderBlocks]_vars

SpecUsage == InitUsage /\ [][ScanUsages]_vars

----------------------------------------------------------------------------
(* Properties of replace_block and main *)

\* the spans of a marker pair in t from pos on: pattern.finditer
RECURSIVE SpansFrom(_, _, _, _)
SpansFrom(t, pos, s, e) ==
    IF Search(t, pos, s, e)[1] = 0 THEN 0
    ELSE 1 + SpansFrom(t, Search(t, pos, s, e)[2], s, e)

SpanCount(t, label) == SpansFrom(t, 1, StartLiteral(label), EndLiteral(label))

\* the start marker lines of t for a label
StartLines(t, label) ==
    {i \in 1..Len(t) :
        t[i] = StartLiteral(label) /\ AtLineStart(t, i) /\ StartLineNl(t, i) # 0}

\* t holds no span of the pair, or several, or a duplicated start marker line
Ambiguous(t, label) == SpanCount(t, label) # 1 \/ Cardinality(StartLines(t, label)) > 1

IsPrefixOf(a, b) == Len(a) <= Len(b) /\ SubSeq(b, 1, Len(a)) = a
IsSuffixOf(a, b) == Len(a) <= Len(b) /\ SubSeq(b, Len(b) - Len(a) + 1, Len(b)) = a

\* C1: replace_block raises on every document whose marker pair matches no
\* span or more than one span, or whose start marker line is duplicated
\* before one end marker line; main, which calls it on the plan it read,
\* raises on such a plan.
C1_RaisesUnlessExactlyOneSpan ==
    /\ (pc = "once" /\ Ambiguous(text, "PORT TAXONOMY")) => once.raised
    /\ (pc = "plan" /\ run > 0 /\ Ambiguous(last.original, "PORT TAXONOMY")) => last.raised

\* the position of the start literal of the span replace_block replaces
SpanStart(t, label) == Search(t, 1, StartLiteral(label), EndLiteral(label))[1]

\* the position of the end literal of that span
SpanEndLiteral(t, label) ==
    Min(EndCandidates(t, StartLineNl(t, SpanStart(t, label)), EndLiteral(label)))

\* the prefix of t and its start marker line, up to the newline that ends it
ThroughStartLine(t, label) == SubSeq(t, 1, StartLineNl(t, SpanStart(t, label)))

\* the end marker line of t and every character after it
FromEndLine(t, label) == SubSeq(t, LineStartOf(t, SpanEndLiteral(t, label)), Len(t))

\* C2: a successful replace_block changes only the interior of the region:
\* the result begins with the prefix and the start marker line of the
\* document and ends with its end marker line and its suffix, every
\* character after the end marker included.
C2_OnlyInteriorChanges ==
    (pc = "once" /\ ~once.raised) =>
        /\ IsPrefixOf(ThroughStartLine(text, "PORT TAXONOMY"), once.text)
        /\ IsSuffixOf(FromEndLine(text, "PORT TAXONOMY"), once.text)

\* C3: splicing is idempotent: replace_block applied to its own result with
\* the same block returns that result; and a run of main on the plan a
\* completed write-mode run left on disk computes updated = original,
\* says the inventories are up to date and writes nothing.
C3_SecondRunIsFixedPoint ==
    /\ pc = "twice" => twice = once
    /\ (pc = "plan" /\ run = 2 /\ ~prev.check /\ ~prev.raised) =>
          /\ ~last.raised
          /\ last.updated = last.original
          /\ last.message = UpToDate
          /\ last.writes = 0

\* C4: a run of main reads the plan once and writes it at most once; it
\* writes only after both splices succeeded, only a text that differs from
\* the text read, and never in check mode; a run in which a splice fails
\* writes nothing; when both splices succeed check mode exits 1 exactly
\* when the spliced text differs from the text read, and write mode exits 0.
C4_ReadOnceWriteAtMostOnce ==
    (pc = "plan" /\ run > 0) =>
        /\ last.reads = 1
        /\ last.writes \in {0, 1}
        /\ last.writes = 1 =>
              /\ last.spliced = 2 /\ ~last.raised /\ ~last.check
              /\ last.updated # last.original
              /\ last.written = last.updated
        /\ last.raised <=> last.spliced < 2
        /\ last.raised => last.writes = 0
        /\ last.check => last.writes = 0
        /\ (last.check /\ ~last.raised) => (last.status = 1 <=> last.updated # last.original)
        /\ (last.check /\ ~last.raised) => last.status \in {0, 1}
        /\ (~last.check /\ ~last.raised) => last.status = 0
        /\ plan = IF last.writes = 1 THEN last.updated ELSE last.original

\* a write-mode run spliced both regions into a stale plan and wrote it
C4_RunThatWrote ==
    /\ pc = "plan" /\ run > 0
    /\ ~last.check /\ last.spliced = 2 /\ last.writes = 1
    /\ last.updated # last.original /\ plan = last.updated

----------------------------------------------------------------------------
(* Properties of the classifier and of the rows *)

PortRowRendered == pc = "row" /\ row.table = "port"
DtoRowRendered == pc = "row" /\ row.table = "dto"

\* the two exception lists of the classifier
BoundaryDtoNames == {RequestContext, UseCaseContext}
BoundaryTraitNames == {RequestHandler}

\* some usage path of the list is not a boundary path
SomeNonBoundary(paths) == \E i \in 1..Len(paths) : ~is_boundary_path(paths[i])

\* C5: suggest_port_target applies its rules in priority order: boundary
\* DTO exception, boundary trait exception, use-case-port suffix, a usage
\* list with a non-boundary path, and inbound otherwise; the note of the
\* row is the one of the rule that fired.
C5_PriorityOrder ==
    PortRowRendered =>
        /\ item.name \in BoundaryDtoNames =>
              row.cells.suggested = InboundBoundaryDto /\ row.cells.notes = NoteLeak
        /\ (item.name \notin BoundaryDtoNames /\ item.name \in BoundaryTraitNames) =>
              row.cells.suggested = InboundBoundaryTrait /\ row.cells.notes = NoteLeak
        /\ (item.name \notin BoundaryDtoNames \cup BoundaryTraitNames
              /\ EndsWithUseCasePort(item.name)) =>
              row.cells.suggested = Inbound /\ row.cells.notes = NoteAdapters
        /\ (item.name \notin BoundaryDtoNames \cup BoundaryTraitNames
              /\ ~EndsWithUseCasePort(item.name) /\ SomeNonBoundary(arg_used)) =>
              row.cells.suggested = OutboundMisplaced /\ row.cells.notes = NoteMove
        /\ (item.name \notin BoundaryDtoNames \cup BoundaryTraitNames
              /\ ~EndsWithUseCasePort(item.name) /\ ~SomeNonBoundary(arg_used)) =>
              row.cells.suggested = Inbound /\ row.cells.notes = NoteAdapters

\* a boundary DTO exception name, all of whose usages are outside the
\* boundary directories, was classified as a boundary DTO
C5_ExceptionUsedOutsideBoundary ==
    /\ PortRowRendered
    /\ item.name = RequestContext
    /\ arg_used # <<>>
    /\ \A i \in 1..Len(arg_used) : ~is_boundary_path(arg_used[i])
    /\ row.cells.suggested = InboundBoundaryDto

\* the path contains one of the boundary-directory substrings; of the
\* segments of the model only "subroutes" contains one without being one
HasBoundarySubstring(p) ==
    \E i \in 1..Len(p) :
        \/ p[i] \in {"presentation", "routes", "subroutes"}
        \/ i < Len(p) /\ p[i] = "application"
              /\ p[i + 1] \in {"handlers", "request_handlers", "requests"}

SomeOutsideBoundary(paths) == \E i \in 1..Len(paths) : ~HasBoundarySubstring(paths[i])

\* C6 as stated: every item with a usage path that contains none of the
\* boundary-directory substrings is classified outbound (misplaced today).
C6_MisplacedWhateverTheName ==
    (PortRowRendered /\ SomeOutsideBoundary(arg_used)) =>
        row.cells.suggested = OutboundMisplaced

\* C6: an item with a usage path that contains none of the
\* boundary-directory substrings is classified outbound (misplaced today),
\* unless its name is in an exception list or ends in UseCasePort.
C6_MisplacedUnlessNamed ==
    (PortRowRendered /\ SomeOutsideBoundary(arg_used)
        /\ item.name \notin BoundaryDtoNames \cup BoundaryTraitNames
        /\ ~EndsWithUseCasePort(item.name)) =>
        row.cells.suggested = OutboundMisplaced

\* an item used both inside and outside the boundary directories was
\* classified as misplaced
C6_MixedUsageMisplaced ==
    /\ PortRowRendered
    /\ item.name = StagingPort
    /\ SomeOutsideBoundary(arg_used)
    /\ \E i \in 1..Len(arg_used) : is_boundary_path(arg_used[i])
    /\ row.cells.suggested = OutboundMisplaced

\* an example-path cell: the first limit paths of the list, and "(+K more)"
\* for the K paths beyond them
ExampleCell(paths, limit) ==
    JoinPaths(SubSeq(paths, 1, Min({Len(paths), limit})))
      \o (IF Len(paths) > limit
          THEN <<" (+", NumStr(Len(paths) - limit), " more)">> ELSE <<>>)

\* C7 as stated: every example-path cell of both tables shows the first
\* min(n, 3) paths of its list and "(+K more)" with K = n - 3 when n > 3.
C7_ThreePathsInEveryCell ==
    /\ PortRowRendered => row.cells.used_disp = ExampleCell(arg_used, 3)
    /\ DtoRowRendered =>
          /\ row.dto_disp = ExampleCell(arg_used, 3)
          /\ row.port_disp = ExampleCell(arg_port_locs, 3)

\* C7: the "Used in" cell of the port taxonomy table shows the first
\* min(n, 3) paths and "(+K more)" with K = n - 3 when n > 3, and is empty
\* for n = 0; the two module-example cells of the DTO ownership table show
\* the first min(n, 2) paths and "(+K more)" with K = n - 2 when n > 2.
C7_ThreePathsUsedTwoPathsDto ==
    /\ PortRowRendered => row.cells.used_disp = ExampleCell(arg_used, 3)
    /\ (PortRowRendered /\ arg_used = <<>>) => row.cells.used_disp = <<>>
    /\ DtoRowRendered =>
          /\ row.dto_disp = ExampleCell(arg_used, 2)
          /\ row.port_disp = ExampleCell(arg_port_locs, 2)

\* a DTO row of a type declared in three files of engine-dto shows two of
\* them and "(+1 more)"
C7_DtoCellOfThreePaths ==
    /\ DtoRowRendered
    /\ Len(arg_used) = 3
    /\ row.dto_disp = JoinPaths(<<arg_used[1], arg_used[2]>>) \o <<" (+", "1", " more)">>

----------------------------------------------------------------------------
(* Properties of the rendered blocks *)

BlocksRendered == pc = "blocks"

\* the lines of a block
Lines(block) == Split(block, <<NL>>)

\* how many lines of the block are the given line
LineCount(block, line) ==
    Let(Lines(block), LAMBDA ls : Cardinality({i \in 1..Len(ls) : ls[i] = line}))

\* the first line of the header of a port taxonomy table
PortHeaderLine == <<PortHeader[1]>>

\* the lines of a block that are rows of items or types
ItemRows(block) ==
    Let(Lines(block), LAMBDA ls : {i \in 1..Len(ls) : ls[i] # <<>> /\ ls[i][1] = "| '"})

\* the names the files of the tree under dir declare with one of the kinds
NamesUnder(dir, kinds) ==
    UNION {{f.decls[i].name : i \in {k \in 1..Len(f.decls) : f.decls[k].kind \in kinds}} :
              f \in {g \in files : InDir(g.path, dir)}}

AllKinds == {"trait", "struct", "enum", "type"}
TypeKinds == {"struct", "enum", "type"}

EngineSideEmpty == NamesUnder(EngineInboundDir, AllKinds) = {}
PlayerSideEmpty == NamesUnder(PlayerInboundDir, AllKinds) = {}
Collisions == NamesUnder(EngineDtoSrc, TypeKinds) \cap NamesUnder(EnginePortsSrc, TypeKinds)

\* the number of c in a pair of booleans
CountOf(c, a, b) == (IF a = c THEN 1 ELSE 0) + (IF b = c THEN 1 ELSE 0)

DeclaringPaths(dir, name) ==
    {f.path : f \in {g \in files : InDir(g.path, dir)
                                     /\ \E i \in 1..Len(g.decls) : g.decls[i].name = name}}

\* defs holds every name declared under dir, each with the first, in path
\* order, of the files that declare it
FirstInPathOrder(defs, dir) ==
    /\ DOMAIN defs = NamesUnder(dir, AllKinds)
    /\ \A n \in DOMAIN defs :
          /\ defs[n].rel_path \in DeclaringPaths(dir, n)
          /\ \A q \in DeclaringPaths(dir, n) : ~StrLess(q, defs[n].rel_path)

\* every list of the usage is in ascending order, without duplicates
SortedLists(usage) ==
    \A n \in DOMAIN usage :
        \A i, j \in 1..Len(usage[n]) : i < j => StrLess(usage[n][i], usage[n][j])

\* the rows are in ascending order of their names
AscendingRows(rows) == \A i, j \in 1..Len(rows) : i < j => StrLess(rows[i].name, rows[j].name)

\* the files of the tree in the order of their paths
InPathOrder ==
    Let(SortedSet({f.path : f \in files}),
        LAMBDA paths : [i \in 1..Len(paths) |-> CHOOSE f \in files : f.path = paths[i]])

\* what index_defs, scan_inbound_usages and render_table make of the tree
\* under an enumeration, roots the search roots of the player side
Indexed(order, roots) ==
    Let(index_defs(collect_public_items(EngineInboundDir, order)), LAMBDA engine_defs :
    Let(scan_inbound_usages(<<EngineAppSrc>>, order), LAMBDA engine_usage :
        [defs |-> engine_defs,
         engine_usage |-> engine_usage,
         player_usage |-> scan_inbound_usages(roots, order),
         rows |-> TableRows(engine_defs, engine_usage)]))

\* C9: the rendering does not depend on the order in which the files are
\* enumerated, nor on the order of the search roots: whatever the order,
\* index_defs chooses for a name the item it chooses when the files come
\* in path order, the first in (name, path) order; scan_inbound_usages
\* yields the same sorted duplicate-free lists; the rows are in ascending
\* name order; and the two blocks are the same texts.
C9_EnumerationOrderIrrelevant ==
    BlocksRendered =>
        /\ render_port_taxonomy_block(InPathOrder) = port_block
        /\ render_dto_ownership_block(InPathOrder) = dto_block
        /\ Let(Indexed(listing, <<PlayerAppSrc, PlayerUiSrc>>), LAMBDA got :
              /\ got = Indexed(InPathOrder, <<PlayerUiSrc, PlayerAppSrc>>)
              /\ got.engine_usage = scanned
              /\ FirstInPathOrder(got.defs, EngineInboundDir)
              /\ SortedLists(got.engine_usage) /\ SortedLists(got.player_usage)
              /\ AscendingRows(got.rows))

\* two files of engine-ports/src/inbound declare StagingPort, with
\* different kinds, and the file system yields q.rs before p.rs; two
\* files of engine-app use it
C9_SameNameInTwoFiles ==
    /\ BlocksRendered
    /\ \E i, j \in 1..Len(listing) :
          /\ i < j
          /\ listing[i].path = EnginePortQ /\ listing[j].path = EnginePortP
          /\ \E k \in 1..Len(listing[i].decls) : listing[i].decls[k].name = StagingPort
          /\ listing[j].decls[1].name = StagingPort
          /\ listing[j].decls[1].kind # listing[i].decls[1].kind
    /\ StagingPort \in DOMAIN scanned

----------------------------------------------------------------------------
(* Properties of the usage scanner *)

UsageScanned == pc = "usage"

\* the text of the one file scanned
ScannedSrc == (CHOOSE f \in files : TRUE).src

\* the end of the run of identifier characters and colons that starts at i
PathEnd(src, i) ==
    Min({j \in i..(Len(src) + 1) : j = Len(src) + 1 \/ ~(IsIdentWord(src[j]) \/ src[j] = ":")})

\* the start of the identifier that ends before position j
IdentStart(src, j) == 1 + Max({k \in 0..(j - 1) : k = 0 \/ ~IsIdentWord(src[k])})

\* the names of the dotted references of src: a prefix, module segments
\* and colons, and the name, its last segment
DottedNames(src) ==
    {SubSeq(src, IdentStart(src, PathEnd(src, i + 1)), PathEnd(src, i + 1) - 1) :
        i \in {k \in 1..(Len(src) - 1) :
                  /\ src[k] \in InboundPrefixes
                  /\ PathEnd(src, k + 1) > k + 1
                  /\ IsIdentWord(src[PathEnd(src, k + 1) - 1])}}

\* C10: scan_inbound_usages records every reference of the dotted form,
\* whatever text surrounds it: the last segment of each is a name of the
\* result, mapped to the file.
C10_EveryDottedReferenceRecorded ==
    UsageScanned =>
        \A name \in DottedNames(ScannedSrc) :
            name \in DOMAIN scanned /\ scanned[name] = <<ServicesB>>

====
